---- MODULE Spec2Model ----
(***************************************************************************)
(* A model of src/bot.py: the acquisition chain of the URL downloader bot. *)
(*                                                                         *)
(* main() builds the Application with its defaults (line 416), so updates  *)
(* are handled one after the other: at most one handler coroutine exists   *)
(* at a time.  "call" holds that coroutine's locals and its position (pc), *)
(* the await it is suspended at.  Everything the code does between two     *)
(* awaits is one atomic step.  Every await of a Telegram or HTTP call can  *)
(* return, raise, or be cancelled (asyncio.CancelledError is a             *)
(* BaseException, so no "except Exception" of the code catches it).  The   *)
(* child process started by run_yt_dlp runs concurrently with the handler. *)
(*                                                                         *)
(* Sizes are counted in model units: MAX_DIRECT_DOWNLOAD_BYTES and         *)
(* CHUNK_SIZE are the code's two constants scaled down so that a transfer  *)
(* crosses the ceiling within a few chunks.                                *)
(***************************************************************************)
EXTENDS Integers, FiniteSets, TLC

\* ------------------------------------------------------------------ bounds
MaxCalls == 3                   \* handler invocations in one behaviour
MaxMtime == 2                   \* modification times the tool's files can carry
MAX_DIRECT_DOWNLOAD_BYTES == 3  \* the byte ceiling, in model units
CHUNK_SIZE == 2                 \* the largest chunk aiter_bytes yields, in model units

Sessions == {"s1", "s2"}
None == "None"

\* Two URLs: a path without extension, and a path whose last component is "..".
Urls == {"http://h/clip", "http://h/..?x"}

\* A file name is a stem and an extension ("" when the name holds no dot).
Name(stem, ext) == [stem |-> stem, ext |-> ext]

\* No path at all: the value None of a str | None result.
NoPath == Name("", "")

\* pathlib.Path("/..").name is "..": joined to the scratch directory it names
\* the directory's parent, which exists and is a directory.
DotDot == Name(".", ".")

\* Lines 111-117, on the URLs above.
pick_filename_from_url(u) ==
    CASE u = "http://h/clip"  -> Name("clip", "")
      [] u = "http://h/..?x"  -> DotDot
      [] OTHER                -> Name("download", "")

\* The names yt-dlp's output template "%(title).200s.%(ext)s" produces here.
YtNames == {Name("clip", ".mp4"), Name("clip", ".part")}

ContentTypes == {"", "video/mp4"}

guess_extension(ct) == IF ct = "video/mp4" THEN ".mp4" ELSE ""

\* Lines 223-228: the extension guessed from the content type is appended to a
\* name that holds no dot.
WithGuessedExt(name, ct) ==
    IF name.ext = "" /\ ct # "" /\ guess_extension(ct) # ""
    THEN Name(name.stem, guess_extension(ct))
    ELSE name

\* ---------------------------------------------------------------- variables
VARIABLES
    user_data,     \* session -> context.user_data["last_url"], or None
    call,          \* the running handler's locals and position
    tmp,           \* the scratch directory of the running call, on disk
    notices,       \* <<session, url>> -> failure notices on display for that call
    started,       \* handler invocations so far
    lastRecorded,  \* history: session -> URL of the call that last ran line 297 (None after clear)
    cleared        \* history: session -> user_data was cleared while a failure notice of the
                   \* session was on display, and one has been on display ever since

vars == <<user_data, call, tmp, notices, started, lastRecorded, cleared>>

IdleCall ==
    [pc |-> "idle", kind |-> None, sess |-> None, url |-> None,
     origin |-> None, origin_cleared |-> FALSE,
     status_msg |-> None, proc |-> "none", file_path |-> NoPath, out_path |-> NoPath,
     total |-> 0, f_open |-> FALSE, tmpdir |-> 0,
     \* history fields, read by the properties only
     entered |-> FALSE, yt |-> "pending", fetches |-> 0, fetch_url |-> None,
     fetch_dir |-> 0, head_big |-> FALSE, heads |-> 0, gets |-> 0, over |-> FALSE, handed |-> FALSE,
     delivered |-> FALSE, outcome |-> None, cancelled_at |-> None,
     slot_empty |-> FALSE, invokes |-> 0, dd |-> "pending",
     why_dd |-> None, get_due |-> FALSE,
     listing_raised |-> FALSE, over_total |-> 0]

NoDir == [exists |-> FALSE, id |-> 0, files |-> {}]

Init ==
    /\ user_data = [s \in Sessions |-> None]
    /\ call = IdleCall
    /\ tmp = NoDir
    /\ notices = [n \in Sessions \X Urls |-> 0]
    /\ started = 0
    /\ lastRecorded = [s \in Sessions |-> None]
    /\ cleared = [s \in Sessions |-> FALSE]

\* ------------------------------------------------------------- file system
\* os.path.exists(os.path.join(out_dir, name))
Exists(fs, name) ==
    fs.exists /\ (name = DotDot \/ \E f \in fs.files : f.name = name)

\* os.remove(out_path)
Remove(fs, name) == [fs EXCEPT !.files = {f \in @ : f.name # name}]

\* "if os.path.exists(out_path): os.remove(out_path)", lines 237-238 and 245-246
RemoveIfExists(fs, name) == IF Exists(fs, name) THEN Remove(fs, name) ELSE fs

\* A file of the directory is created or replaced.
Put(fs, name, mtime, size, by) ==
    [fs EXCEPT !.files =
        {f \in @ : f.name # name}
            \cup {[name |-> name, mtime |-> mtime, size |-> size, by |-> by]}]

SizeOf(fs, name) ==
    IF \E f \in fs.files : f.name = name
    THEN (CHOOSE f \in fs.files : f.name = name).size
    ELSE 0

\* tempfile.TemporaryDirectory().__enter__, line 299: a new, empty directory
\* under a name of its own
EnterTmpdir(fs, id) == [exists |-> TRUE, id |-> id, files |-> {}]

ExitTmpdirRmdir(fs) == IF fs.files = {} THEN NoDir ELSE fs

\* TemporaryDirectory.__exit__: the directory and all it holds are removed,
\* on return and on every exception leaving the with block of line 299.
ExitTmpdir(fs) == NoDir

\* ------------------------------------------------------------ session state
RecordIfEmpty(ud, s, u) == IF ud[s] = None THEN [ud EXCEPT ![s] = u] ELSE ud

\* context.user_data["last_url"] = url, line 297
Record(ud, s, u) == [ud EXCEPT ![s] = u]

LastShared(ud, s) == ud["s1"]

\* context.user_data.get("last_url"), line 384
Last(ud, s) == ud[s]

ClearAll(ud, s) == [t \in Sessions |-> None]

\* context.user_data.clear(), line 367
Clear(ud, s) == [ud EXCEPT ![s] = None]

\* ----------------------------------------------------------------- notices
\* A failure notice of session s for URL u, with its retry keyboard, is on
\* display.
ShowsRetry(s, u) == notices[<<s, u>>] > 0

\* One failure notice of session s for URL u leaves the display.
DropNotice(s, u) ==
    /\ notices' = [notices EXCEPT ![<<s, u>>] = @ - 1]
    /\ cleared' = [cleared EXCEPT ![s] =
                     @ /\ \E v \in Urls : notices'[<<s, v>>] > 0]

\* ------------------------------------------------------------ dispatching
\* No handler is running: the next update can be dispatched.
CanDispatch == call.pc = "idle" /\ started < MaxCalls

\* The handler ends before process_download's with block is entered.
EndHandler(rec, outcome) ==
    /\ call' = [rec EXCEPT !.pc = "returned", !.outcome = outcome]
    /\ UNCHANGED <<user_data, tmp, notices, started, lastRecorded, cleared>>

\* The locals of direct_download are gone once it has returned or raised; the
\* with statement of line 230 has closed the file object.
DirectDownloadLeft(rec) ==
    [rec EXCEPT !.out_path = NoPath, !.total = 0, !.f_open = FALSE]

\* So are those of process_download.
Returned(rec) ==
    [DirectDownloadLeft(rec) EXCEPT !.file_path = NoPath, !.tmpdir = 0, !.fetch_dir = 0]

\* process_download returns or raises inside the with block of line 299: the
\* file object of line 230, if open, is closed and the scratch directory is
\* cleaned up.  fs is the file system as the call leaves it.
LeaveWith(rec, fs, outcome) ==
    /\ call' = [Returned(rec) EXCEPT !.pc = "returned", !.outcome = outcome]
    /\ tmp' = ExitTmpdir(fs)
    /\ notices' = IF rec.status_msg = "failed"
                  THEN [notices EXCEPT ![<<rec.sess, rec.url>>] = @ + 1]
                  ELSE notices
    /\ UNCHANGED <<user_data, started, lastRecorded, cleared>>

\* The handler's coroutine is finished and the application takes the next
\* update.  Nothing of the call is kept but what is on display or on disk.
Finish ==
    /\ call.pc = "returned"
    /\ call' = IdleCall
    /\ tmp' = NoDir
    /\ UNCHANGED <<user_data, notices, started, lastRecorded, cleared>>

\* ------------------------------------------------------- process_download
\* Lines 297-300 and 170: the URL is recorded, the scratch directory is made,
\* run_yt_dlp is entered and suspends at create_subprocess_exec.
ProcessDownloadBody(rec) ==
    /\ user_data' = Record(user_data, rec.sess, rec.url)
    /\ lastRecorded' = [lastRecorded EXCEPT ![rec.sess] = rec.url]
    /\ tmp' = EnterTmpdir(tmp, started)
    /\ call' = [rec EXCEPT !.pc = "spawn", !.tmpdir = started, !.invokes = @ + 1]

\* handle_message, lines 329-339: a message holding URL u arrives in session s
\* and process_download suspends at reply_text, line 294.
HandleMessage(s, u) ==
    /\ CanDispatch
    /\ started' = started + 1
    /\ call' = [call EXCEPT !.pc = "reply", !.kind = "message", !.sess = s,
                            !.url = u, !.entered = TRUE]
    /\ UNCHANGED <<user_data, tmp, notices, lastRecorded, cleared>>

\* Line 294: the "downloading" status message is sent, or reply_text raises.
ReplyText ==
    /\ call.pc = "reply"
    /\ \/ /\ ProcessDownloadBody([call EXCEPT !.status_msg = "downloading"])
          /\ UNCHANGED <<notices, started, cleared>>
       \/ EndHandler(call, "raised")

\* ------------------------------------------------------------- the child
\* The tool writes a file into its output directory.
ChildWrite(name, mtime) ==
    /\ call.proc = "running"
    /\ tmp.exists
    /\ tmp' = Put(tmp, name, mtime, 1, "tool")
    /\ UNCHANGED <<user_data, call, notices, started, lastRecorded, cleared>>

\* The tool exits with return code rc.
ChildExit(rc) ==
    /\ call.proc = "running"
    /\ call' = [call EXCEPT !.proc = IF rc = 0 THEN "exit0" ELSE "exit1"]
    /\ UNCHANGED <<user_data, tmp, notices, started, lastRecorded, cleared>>

\* --------------------------------------------------------------- run_yt_dlp
run_yt_dlp_except_reraise(fault) ==
    IF fault = "FileNotFoundError" THEN "None" ELSE "raise"

\* Lines 186-191: both handlers log and return None.
run_yt_dlp_except(fault) == "None"

\* Lines 180-185: the entries of out_dir sorted by modification time, newest
\* first; files[0], or None when there is none.  sorted() is stable and
\* os.listdir's order is arbitrary, so any newest entry can come first.
OldestFiles(files) ==
    {f.name : f \in {g \in files : \A h \in files : g.mtime <= h.mtime}}

NewestFiles(files) ==
    {f.name : f \in {g \in files : \A h \in files : h.mtime <= g.mtime}}

AnyFileFallback(file_path) == TRUE

\* "if not file_path", line 302
NeedFallback(file_path) == file_path = NoPath

\* Lines 195-206: direct_download(url, tmpdir) is entered and suspends at
\* client.head.
DirectDownloadEnter(rec) ==
    [rec EXCEPT !.pc = "head", !.fetches = @ + 1, !.fetch_url = rec.url,
                !.fetch_dir = rec.tmpdir, !.out_path = pick_filename_from_url(rec.url)]

\* run_yt_dlp has returned path (NoPath for None): lines 302-313.
AfterRunYtDlp(rec, path) ==
    LET r == [rec EXCEPT !.yt = IF path = NoPath THEN "failed" ELSE "found"] IN
    /\ call' = IF NeedFallback(path)
               THEN DirectDownloadEnter(r)
               ELSE [r EXCEPT !.pc = "edit_uploading", !.file_path = path]
    /\ UNCHANGED <<user_data, tmp, notices, started, lastRecorded, cleared>>

\* An exception is raised inside the try block of run_yt_dlp: by
\* create_subprocess_exec, by decoding the error stream of a tool that exited
\* with a non-zero code, or, after exit code 0, by listing the directory or
\* reading a modification time (listing_raised).
RunYtDlpFault(fault) ==
    LET rec == [call EXCEPT !.listing_raised = (call.proc = "exit0")] IN
    IF run_yt_dlp_except(fault) = "None"
    THEN AfterRunYtDlp(rec, NoPath)
    ELSE LeaveWith([rec EXCEPT !.yt = "raised"], tmp, "raised")

\* Line 170: create_subprocess_exec starts the tool, or raises (FileNotFoundError
\* when the binary is absent).
Spawn ==
    /\ call.pc = "spawn"
    /\ \/ /\ call' = [call EXCEPT !.pc = "communicate", !.proc = "running"]
          /\ UNCHANGED <<user_data, tmp, notices, started, lastRecorded, cleared>>
       \/ \E fault \in {"FileNotFoundError", "Exception"} : RunYtDlpFault(fault)

CommunicateDoneEarly(proc) == proc # "none"

\* "await proc.communicate()", line 175: the wait ends when the tool has
\* exited and its pipes are at end of file.
CommunicateDone(proc) == proc \in {"exit0", "exit1"}

\* Lines 175-185: communicate returns once the tool has exited; decoding its
\* error stream, listing the directory or reading a modification time may
\* then raise.
Communicate ==
    /\ call.pc = "communicate"
    /\ CommunicateDone(call.proc)
    /\ \/ /\ call.proc = "exit1"
          /\ AfterRunYtDlp(call, NoPath)
       \/ /\ call.proc = "exit0"
          /\ tmp.files = {}
          /\ AfterRunYtDlp(call, NoPath)
       \/ /\ call.proc = "exit0"
          /\ \E name \in NewestFiles(tmp.files) : AfterRunYtDlp(call, name)
       \/ RunYtDlpFault("Exception")

\* ---------------------------------------------------------- direct_download
\* What a content-length header can hold: nothing, text that is no number,
\* digits int() refuses (str.isdigit() accepts "²", and int() converts no
\* more than 4300 digits), or a number.
ContentLengths ==
    {[kind |-> k, n |-> 0] : k \in {"absent", "text", "odd_digits"}}
        \cup {[kind |-> "digits", n |-> n] :
                n \in {0, MAX_DIRECT_DOWNLOAD_BYTES, MAX_DIRECT_DOWNLOAD_BYTES + 1}}

Statuses == {200, 404}

HeadTooLargeIgnored(status, cl) == FALSE

\* Lines 211-213: the probe answered below 400 and declares more than the ceiling.
HeadTooLarge(status, cl) ==
    status < 400 /\ cl.kind = "digits" /\ cl.n > MAX_DIRECT_DOWNLOAD_BYTES

OverLimitAtCeiling(total) == total >= MAX_DIRECT_DOWNLOAD_BYTES

OverLimitLate(total) == total > MAX_DIRECT_DOWNLOAD_BYTES + CHUNK_SIZE

\* "if total > MAX_DIRECT_DOWNLOAD_BYTES", line 235
OverLimit(total) == total > MAX_DIRECT_DOWNLOAD_BYTES

AfterDirectDownloadAgain(rec, fs, path) ==
    /\ call' = IF path = NoPath
               THEN IF rec.fetches < 2
                    THEN DirectDownloadEnter(DirectDownloadLeft(rec))
                    ELSE [DirectDownloadLeft(rec) EXCEPT !.pc = "edit_failed"]
               ELSE [DirectDownloadLeft(rec) EXCEPT !.pc = "edit_uploading",
                                                   !.file_path = path, !.dd = "found"]
    /\ tmp' = fs
    /\ UNCHANGED <<user_data, notices, started, lastRecorded, cleared>>

\* direct_download has returned path (NoPath for None) and left the file
\* system as fs: lines 305-313.
AfterDirectDownload(rec, fs, path) ==
    /\ call' = IF path = NoPath
               THEN [DirectDownloadLeft(rec) EXCEPT !.pc = "edit_failed", !.dd = "failed"]
               ELSE [DirectDownloadLeft(rec) EXCEPT !.pc = "edit_uploading",
                                                   !.file_path = path, !.dd = "found"]
    /\ tmp' = fs
    /\ UNCHANGED <<user_data, notices, started, lastRecorded, cleared>>

\* Lines 243-247: an exception inside the try block.  The file object, if
\* open, has been closed by its with statement.  os.remove raises when out_path
\* is a directory, and that exception leaves direct_download.
ExceptPath(rec, fs) ==
    IF Exists(fs, rec.out_path) /\ rec.out_path = DotDot
    THEN LeaveWith([rec EXCEPT !.dd = "raised", !.why_dd = "exception"], fs, "raised")
    ELSE AfterDirectDownload([rec EXCEPT !.why_dd = "exception"],
                             RemoveIfExists(fs, rec.out_path), NoPath)

\* Lines 206-217: the HEAD probe raises or answers; GET is then requested
\* unless the declared length is above the ceiling.
ClientHead ==
    /\ call.pc = "head"
    /\ LET rec == [call EXCEPT !.heads = @ + 1] IN
       \/ /\ call' = [rec EXCEPT !.pc = "get", !.get_due = TRUE]
          /\ UNCHANGED <<user_data, tmp, notices, started, lastRecorded, cleared>>
       \/ \E status \in Statuses, cl \in ContentLengths :
            IF status < 400 /\ cl.kind = "odd_digits"
            THEN ExceptPath([rec EXCEPT !.get_due = TRUE], tmp)
            ELSE LET big == status < 400 /\ cl.kind = "digits"
                                /\ cl.n > MAX_DIRECT_DOWNLOAD_BYTES
                     r == [rec EXCEPT !.head_big = big,
                                      !.get_due = status >= 400 \/ cl.kind # "digits"] IN
            IF HeadTooLarge(status, cl)
            THEN AfterDirectDownload([r EXCEPT !.why_dd = "too large"], tmp, NoPath)
            ELSE /\ call' = [r EXCEPT !.pc = "get"]
                 /\ UNCHANGED <<user_data, tmp, notices, started, lastRecorded, cleared>>

\* Lines 217-230: client.stream("GET") raises or answers; below 400 the output
\* file is opened for writing, which creates or truncates it.
ClientStream ==
    /\ call.pc = "get"
    /\ LET rec == [call EXCEPT !.gets = @ + 1, !.get_due = FALSE] IN
       \/ ExceptPath(rec, tmp)
       \/ \E status \in Statuses, ct \in ContentTypes, open_fails \in BOOLEAN :
            LET r == [rec EXCEPT !.out_path = WithGuessedExt(@, ct), !.total = 0] IN
            IF status >= 400
            THEN AfterDirectDownload([rec EXCEPT !.why_dd = "status"], tmp, NoPath)
            ELSE IF r.out_path = DotDot \/ open_fails
            THEN ExceptPath(r, tmp)
            ELSE /\ call' = [r EXCEPT !.pc = "stream", !.f_open = TRUE]
                 /\ tmp' = Put(tmp, r.out_path, 1, 0, "fetch")
                 /\ UNCHANGED <<user_data, notices, started, lastRecorded, cleared>>

\* Lines 231-240: one chunk of k units arrives.
StreamChunk(k) ==
    /\ call.pc = "stream"
    /\ IF k = 0
       THEN UNCHANGED vars
       ELSE LET rec == [call EXCEPT !.total = @ + k] IN
            IF OverLimit(rec.total)
            THEN AfterDirectDownload([rec EXCEPT !.over = TRUE, !.why_dd = "exceeded",
                                                  !.over_total = rec.total],
                                     RemoveIfExists(tmp, rec.out_path), NoPath)
            ELSE /\ call' = rec
                 /\ tmp' = Put(tmp, rec.out_path, 1, SizeOf(tmp, rec.out_path) + k, "fetch")
                 /\ UNCHANGED <<user_data, notices, started, lastRecorded, cleared>>

\* Lines 231 and 242: the body ends, the file is closed, and the path is
\* returned if it exists.
StreamEnd ==
    /\ call.pc = "stream"
    /\ AfterDirectDownload(call, tmp,
          IF Exists(tmp, call.out_path) THEN call.out_path ELSE NoPath)

\* The transfer or a write raises: the with statement closes the file and
\* the handler of line 243 runs.
StreamFault ==
    /\ call.pc = "stream"
    /\ ExceptPath(call, tmp)

\* ------------------------------------------- process_download, lines 305-315
\* Lines 306-311: the failure notice with the retry keyboard replaces the
\* status message, or edit_text raises.
EditFailed ==
    /\ call.pc = "edit_failed"
    /\ \/ LeaveWith([call EXCEPT !.status_msg = "failed"], tmp, "failure")
       \/ LeaveWith(call, tmp, "raised")

EditUploadingThenCleanup ==
    /\ call.pc = "edit_uploading"
    /\ call' = [call EXCEPT !.status_msg = "uploading", !.handed = TRUE,
                            !.pc = "chat_action"]
    /\ tmp' = ExitTmpdir(tmp)
    /\ UNCHANGED <<user_data, notices, started, lastRecorded, cleared>>

\* Lines 313-314 and 251-252: the status message is edited and send_file is
\* called with file_path.  The update of a retry is a FakeUpdate, which has no
\* effective_chat: line 251 raises AttributeError.
EditUploadingOk ==
    /\ call.pc = "edit_uploading"
    /\ LET rec == [call EXCEPT !.status_msg = "uploading", !.handed = TRUE] IN
       IF rec.kind = "retry"
       THEN LeaveWith(rec, tmp, "raised")
       ELSE /\ call' = [rec EXCEPT !.pc = "chat_action"]
            /\ UNCHANGED <<user_data, tmp, notices, started, lastRecorded, cleared>>

\* Line 313: edit_text raises.
EditUploadingFault ==
    /\ call.pc = "edit_uploading"
    /\ LeaveWith(call, tmp, "raised")

\* Lines 252-264: send_chat_action returns and the file is opened and
\* uploaded, or send_chat_action raises.
ChatAction ==
    /\ call.pc = "chat_action"
    /\ \/ /\ call' = [call EXCEPT !.pc = "reply_file"]
          /\ UNCHANGED <<user_data, tmp, notices, started, lastRecorded, cleared>>
       \/ LeaveWith(call, tmp, "raised")

\* Lines 260-264 and 315: reply_video or reply_document returns and the status
\* message is about to be deleted, or the upload raises.
ReplyFile ==
    /\ call.pc = "reply_file"
    /\ \/ /\ call' = [call EXCEPT !.pc = "delete_status", !.delivered = TRUE]
          /\ UNCHANGED <<user_data, tmp, notices, started, lastRecorded, cleared>>
       \/ LeaveWith(call, tmp, "raised")

\* Line 315: the status message is deleted, or delete raises.
DeleteStatus ==
    /\ call.pc = "delete_status"
    /\ \/ LeaveWith([call EXCEPT !.status_msg = "deleted"], tmp, "success")
       \/ LeaveWith(call, tmp, "raised")

\* The positions inside the with block of line 299.
InWith(pc) ==
    pc \in {"spawn", "communicate", "head", "get", "stream", "edit_failed",
            "edit_uploading", "chat_action", "reply_file", "delete_status"}

\* The handler's task is cancelled at the await it is suspended at.
\* CancelledError passes every "except Exception"; nothing in the code
\* terminates the child process.
Cancel ==
    /\ call.pc \notin {"idle", "returned"}
    /\ LET rec == [call EXCEPT !.cancelled_at = call.pc] IN
       IF InWith(call.pc)
       THEN LeaveWith(rec, tmp, "cancelled")
       ELSE EndHandler(rec, "cancelled")

\* ---------------------------------------------------------- handle_callback
\* Lines 344-345, data "retry": the button under a failure notice for URL u is
\* pressed in session s and the handler suspends at query.answer().
HandleCallbackRetry(s, u) ==
    /\ CanDispatch
    /\ ShowsRetry(s, u)
    /\ started' = started + 1
    /\ call' = [call EXCEPT !.pc = "cb_answer", !.kind = "retry", !.sess = s,
                            !.origin = u, !.origin_cleared = cleared[s]]
    /\ UNCHANGED <<user_data, tmp, notices, lastRecorded, cleared>>

NoLastUrlNever(last_url) == FALSE

\* "if not last_url", line 385
NoLastUrl(last_url) == last_url = None

\* Lines 345 and 383-394: query.answer() returns and last_url is read, or
\* answer raises.
CbAnswer ==
    /\ call.pc = "cb_answer"
    /\ \/ LET last_url == Last(user_data, call.sess)
              rec == [call EXCEPT !.slot_empty = (user_data[call.sess] = None)] IN
          /\ call' = IF NoLastUrl(last_url)
                     THEN [rec EXCEPT !.pc = "cb_no_previous"]
                     ELSE [rec EXCEPT !.pc = "cb_delete", !.url = last_url]
          /\ UNCHANGED <<user_data, tmp, notices, started, lastRecorded, cleared>>
       \/ EndHandler(call, "raised")

\* Lines 386-391: the notice is replaced by the "no previous URL" error and
\* the help keyboard, or edit_message_text raises.
CbNoPrevious ==
    /\ call.pc = "cb_no_previous"
    /\ \/ /\ call' = [call EXCEPT !.pc = "returned", !.outcome = "no_previous_url"]
          /\ DropNotice(call.sess, call.origin)
          /\ UNCHANGED <<user_data, tmp, started, lastRecorded>>
       \/ EndHandler(call, "raised")

\* Lines 394-397: the old notice is deleted, or delete_message raises.
CbDelete ==
    /\ call.pc = "cb_delete"
    /\ \/ /\ call' = [call EXCEPT !.pc = "cb_reply"]
          /\ DropNotice(call.sess, call.origin)
          /\ UNCHANGED <<user_data, tmp, started, lastRecorded>>
       \/ EndHandler(call, "raised")

\* Lines 397-405 and 293-300: the new status message is sent and
\* process_download is called with last_url and that message, or reply_text
\* raises.
CbReply ==
    /\ call.pc = "cb_reply"
    /\ \/ /\ ProcessDownloadBody([call EXCEPT !.status_msg = "downloading",
                                              !.entered = TRUE])
          /\ UNCHANGED <<notices, started, cleared>>
       \/ EndHandler(call, "raised")

\* Lines 361-367, data "close": the message is replaced by the goodbye text
\* and the session's user_data is cleared.
HandleCallbackClose(s) ==
    /\ call.pc = "idle"
    /\ user_data' = Clear(user_data, s)
    /\ lastRecorded' = [lastRecorded EXCEPT ![s] = None]
    /\ cleared' = [cleared EXCEPT ![s] = \E u \in Urls : ShowsRetry(s, u)]
    /\ UNCHANGED <<call, tmp, notices, started>>

\* Lines 376-381, data "help": the Help button under a failure notice
\* replaces the notice, and its retry keyboard, by the help text.
HandleCallbackHelp(s, u) ==
    /\ call.pc = "idle"
    /\ ShowsRetry(s, u)
    /\ DropNotice(s, u)
    /\ UNCHANGED <<user_data, call, tmp, started, lastRecorded>>

\* ------------------------------------------------------------ specification
Next ==
    \/ \E s \in Sessions, u \in Urls : HandleMessage(s, u)
    \/ ReplyText
    \/ Spawn
    \/ \E name \in YtNames, mtime \in 1..MaxMtime : ChildWrite(name, mtime)
    \/ \E rc \in {0, 1} : ChildExit(rc)
    \/ Communicate
    \/ ClientHead
    \/ ClientStream
    \/ \E k \in 0..CHUNK_SIZE : StreamChunk(k)
    \/ StreamEnd
    \/ StreamFault
    \/ EditFailed
    \/ EditUploadingOk
    \/ EditUploadingFault
    \/ ChatAction
    \/ ReplyFile
    \/ DeleteStatus
    \/ Cancel
    \/ Finish
    \/ \E s \in Sessions, u \in Urls : HandleCallbackRetry(s, u)
    \/ CbAnswer
    \/ CbNoPrevious
    \/ CbDelete
    \/ CbReply
    \/ \E s \in Sessions : HandleCallbackClose(s)
    \/ \E s \in Sessions, u \in Urls : HandleCallbackHelp(s, u)

Spec == Init /\ [][Next]_vars

\* ================================================================ properties
HasReturned == call.pc = "returned"

FetchFiles == {f \in tmp.files : f.by = "fetch"}

\* C1: once process_download has returned (after delivery, or after the
\* failure notice) or raised (an exception of a strategy, of a status update
\* or of delivery), its scratch directory no longer exists.
C1_ScratchRemovedOnEveryExit ==
    (HasReturned /\ call.outcome \in {"success", "failure", "raised"}) => ~tmp.exists

\* Delivery raised after the hand-over, and the directory is gone.
C1_Witness ==
    HasReturned /\ call.outcome = "raised" /\ call.handed /\ ~call.delivered /\ ~tmp.exists

\* C2: when run_yt_dlp has returned a file path, direct_download is never
\* invoked in that call.
C2_NoFetchAfterExtraction == call.yt = "found" => call.fetches = 0

\* The extracted file was delivered and the call returned without any fetch.
C2_Witness ==
    HasReturned /\ call.yt = "found" /\ call.outcome = "success" /\ call.fetches = 0

\* C3: whenever run_yt_dlp fails (binary absent, non-zero exit, exit 0 with
\* nothing in the directory, any other exception), it returns None rather than
\* raising, and direct_download is invoked with the same URL and the same
\* scratch directory.
C3_FallbackOnAnyExtractionFailure ==
    /\ call.yt # "raised"
    /\ call.yt = "failed" =>
          /\ call.fetches = 1
          /\ call.fetch_url = call.url
          /\ call.fetch_dir = call.tmpdir

\* The tool exited with code 0 without a usable result and the fetch has begun.
C3_Witness ==
    /\ call.yt = "failed" /\ call.proc = "exit0" /\ call.pc = "head"
    /\ call.fetches = 1 /\ call.fetch_dir = tmp.id /\ tmp.exists

\* C4, as claimed: when the handler is cancelled while communicate() waits for
\* the child, the child no longer runs and the scratch directory is removed.
C4_ChildTerminatedOnCancel ==
    (HasReturned /\ call.cancelled_at = "communicate") =>
        (call.proc # "running" /\ ~tmp.exists)

\* C5, as claimed: a retry pressed under the failure notice of a call, with no
\* clear since that failure, replays the URL of the call that failed.
C5_RetryReplaysFailedUrl ==
    (call.kind = "retry" /\ call.entered /\ ~call.origin_cleared) =>
        call.url = call.origin

\* C5, amended: a retry replays the URL the session's slot holds when the retry
\* is handled, the URL of the session's most recent call that recorded one.
C5_RetryReplaysLastRecorded ==
    (call.kind = "retry" /\ call.url # None) => call.url = lastRecorded[call.sess]

\* A retry pressed under the notice of one URL replays another, with no clear
\* since the notice was shown.
C5_Witness ==
    /\ call.kind = "retry" /\ call.entered /\ ~call.origin_cleared
    /\ call.url # call.origin

\* C6, as claimed: a call that handed a file to delivery and was not cancelled
\* ends with exactly one of: the file delivered, the failure notice shown.
C6_ExactlyOneOutcome ==
    (HasReturned /\ call.handed /\ call.outcome # "cancelled") =>
        (call.delivered # (call.status_msg = "failed"))

\* C7: the transfer never goes on once the received total is above the
\* ceiling; the chunk that crosses it makes direct_download close and delete
\* the file and return None, and no file written by the fetch remains.
C7_AbortAtCeiling ==
    /\ call.pc = "stream" => call.total <= MAX_DIRECT_DOWNLOAD_BYTES
    /\ call.over =>
          /\ call.pc \in {"edit_failed", "returned"}
          /\ ~call.f_open
          /\ call.file_path = NoPath
          /\ FetchFiles = {}
          /\ ~call.delivered

\* The ceiling was crossed; the call is about to show the failure notice and
\* the directory still exists, without the partial file.
C7_Witness ==
    call.over /\ call.pc = "edit_failed" /\ tmp.exists /\ call.gets = 1

\* C8: when the HEAD probe answers below 400 and declares a length above the
\* ceiling, direct_download returns None without a GET: nothing is read and no
\* output file is created.
C8_TooLargeShortCircuits ==
    call.head_big =>
        /\ call.gets = 0
        /\ call.pc \in {"edit_failed", "returned"}
        /\ call.file_path = NoPath
        /\ call.total = 0
        /\ ~call.f_open
        /\ FetchFiles = {}
        /\ ~call.delivered

\* The probe declared too much and the fetch has returned None.
C8_Witness ==
    call.head_big /\ call.pc = "edit_failed" /\ call.heads = 1 /\ tmp.exists

\* C9: while send_file runs, the file it was given lies in the call's scratch
\* directory, which exists, and its writer is done with it (the file object
\* closed, the tool exited); everything received had been written; the
\* directory is removed only when the call returns or raises after the
\* hand-over, and then always.
C9_FileCompleteWhileDelivered ==
    /\ call.pc \in {"chat_action", "reply_file"} =>
          /\ tmp.exists
          /\ tmp.id = call.tmpdir
          /\ call.file_path \notin {NoPath, DotDot}
          /\ \E f \in tmp.files : f.name = call.file_path
          /\ ~call.f_open
          /\ call.proc # "running"
    /\ call.pc = "stream" => SizeOf(tmp, call.out_path) = call.total
    /\ call.handed => (tmp.exists <=> ~HasReturned)

\* A file produced by the fetch is being uploaded.
C9_Witness ==
    /\ call.pc = "reply_file" /\ call.yt = "failed"
    /\ \E f \in FetchFiles : f.name = call.file_path /\ f.size > 0

C11_EmptySlotStartsNothing ==
    /\ call.slot_empty =>
          /\ call.kind = "retry"
          /\ user_data[call.sess] = None
          /\ call.url = None
          /\ call.pc \in {"cb_no_previous", "returned"}
          /\ ~call.entered
          /\ ~tmp.exists /\ call.tmpdir = 0
          /\ call.proc = "none" /\ call.yt = "pending"
          /\ call.fetches = 0 /\ call.heads = 0 /\ call.gets = 0
          /\ call.status_msg = None
          /\ HasReturned => call.outcome \in {"no_previous_url", "raised", "cancelled"}
    /\ (call.kind = "retry" /\ call.pc \in {"cb_delete", "cb_reply"}) =>
          ~call.slot_empty /\ call.url # None
    /\ call.outcome = "no_previous_url" => call.slot_empty

\* A retry pressed after a close has shown the error and returned.
C11_Witness ==
    /\ HasReturned /\ call.slot_empty /\ call.outcome = "no_previous_url"
    /\ call.origin_cleared /\ ~tmp.exists

\* The positions at which direct_download is suspended.
InFetch(pc) == pc \in {"head", "get", "stream"}

\* C12: while direct_download runs, run_yt_dlp has returned (with failure) and
\* the tool is not running; while the tool runs, no fetch has begun and
\* nothing in the directory comes from a fetch; and every step that puts a
\* file of the tool into the directory is taken while run_yt_dlp waits for
\* the tool, every step that writes a file of the fetch while the tool is not
\* running.
C12_StrategiesNeverOverlap ==
    /\ [](InFetch(call.pc) =>
             (call.yt = "failed" /\ call.proc # "running" /\ call.fetches = 1))
    /\ [](call.proc = "running" =>
             (/\ call.pc \in {"communicate", "returned"}
              /\ call.yt = "pending"
              /\ call.fetches = 0
              /\ FetchFiles = {}))
    /\ [][(\E f \in tmp'.files : f.by = "tool" /\ f \notin tmp.files) =>
              (call.pc = "communicate" /\ call.proc = "running" /\ call' = call)]_vars
    /\ [][(\E f \in tmp'.files : f.by = "fetch" /\ f \notin tmp.files) =>
              (call.pc \in {"get", "stream"} /\ call.proc # "running")]_vars

\* The fetch writes into a directory that holds files the tool left before it
\* exited with a non-zero code.
C12_Witness ==
    /\ call.pc = "stream" /\ call.total > 0 /\ call.proc = "exit1"
    /\ \E f \in tmp.files : f.by = "tool"
    /\ \E f \in tmp.files : f.by = "fetch"

\* C13: in one call run_yt_dlp is entered once (exactly once as soon as the
\* scratch directory exists) and direct_download at most once, with one probe
\* and one GET at most; a strategy is entered only by a call that has not
\* entered it before; and a call begins only when a message or a retry press
\* is dispatched, each of which is counted in "started".
C13_EachStrategyOnce ==
    /\ [](call.invokes <= 1 /\ call.fetches <= 1)
    /\ [](call.heads <= call.fetches /\ call.gets <= call.heads)
    /\ [](InWith(call.pc) => call.invokes = 1)
    /\ [](call.fetches = 1 => call.invokes = 1)
    /\ [][call'.invokes > call.invokes =>
              (call.invokes = 0 /\ call.pc \in {"reply", "cb_reply"})]_vars
    /\ [][call'.fetches > call.fetches =>
              (call.fetches = 0 /\ call.pc \in {"spawn", "communicate"})]_vars
    /\ [][(call.pc = "idle" /\ call'.pc # "idle") =>
              (/\ started' = started + 1
               /\ call'.pc \in {"reply", "cb_answer"}
               /\ call'.invokes = 0 /\ call'.fetches = 0)]_vars

\* Both strategies were tried, once each, and the call ended in the failure
\* notice.
C13_Witness ==
    /\ HasReturned /\ call.outcome = "failure"
    /\ call.invokes = 1 /\ call.fetches = 1 /\ call.heads = 1 /\ call.gets = 1

\* Both strategies of the call have failed: run_yt_dlp returned None, and
\* direct_download returned None or raised (for another reason than a probe
\* whose answer could not be read, the case of C17).
BothFailed ==
    call.yt = "failed" /\ call.dd \in {"failed", "raised"} /\ ~call.get_due

\* C14, as claimed: every call in which both strategies fail, whatever calls
\* came before it (so the second call with a URL as the first), ends in the
\* one failure outcome, the failure notice with the retry action, unless
\* cancelled or unless editing the status message itself raises; the scratch
\* directory is gone and the session's slot holds the call's URL.
C14_SameFailureEachTime ==
    (/\ HasReturned /\ BothFailed
     /\ call.cancelled_at = None
     /\ call.dd = "failed" => call.outcome # "raised") =>
        /\ call.outcome = "failure"
        /\ call.status_msg = "failed"
        /\ ShowsRetry(call.sess, call.url)
        /\ ~tmp.exists
        /\ user_data[call.sess] = call.url

\* The reason run_yt_dlp failed for, as far as the call's state tells: the
\* tool was not started, exited with a non-zero code, or exited with code 0.
ExtractionReasons == {"none", "exit0", "exit1"}

\* The reason direct_download failed for: lines 215, 220, 239 and 243-247.
FetchReasons == {"too large", "status", "exceeded", "exception"}

\* C15, as claimed: whatever the reason of the extraction's failure and
\* whatever the reason of the fetch's failure (a probe whose answer could not
\* be read aside, the case of C17), a call in which both failed
\* shows the requester the same thing, the failure text with the retry
\* keyboard (unless cancelled, or unless the edit that shows it raises).
C15_FailureShownAlike ==
    (/\ HasReturned /\ call.yt = "failed" /\ ~call.get_due
     /\ call.proc \in ExtractionReasons
     /\ call.why_dd \in FetchReasons
     /\ call.cancelled_at = None
     /\ call.dd = "failed" => call.outcome # "raised") =>
        (call.status_msg = "failed" /\ ShowsRetry(call.sess, call.url))

\* C16, as claimed: when the GET answers 400 or above, or anything raises
\* inside direct_download (the probe, the GET, opening the file, a chunk),
\* direct_download returns None, never raises, and no file written by it
\* remains in the scratch directory.  (A probe whose answer cannot be read
\* is left to C17.)
C16_FetchFaultReturnsNone ==
    ~call.get_due =>
    /\ call.dd # "raised"
    /\ call.why_dd \in {"status", "exception"} =>
          /\ call.dd = "failed"
          /\ call.file_path = NoPath
          /\ ~call.f_open
          /\ FetchFiles = {}

C18_NewestFileOnExitZero ==
    /\ call.yt = "found" => (call.proc = "exit0" /\ ~call.listing_raised)
    /\ (call.pc = "head" /\ call.proc = "exit0" /\ ~call.listing_raised) =>
          tmp.files = {}
    /\ (call.pc = "edit_uploading" /\ call.yt = "found") =>
          \E f \in tmp.files :
              /\ f.name = call.file_path
              /\ \A g \in tmp.files : g.mtime <= f.mtime

\* The tool left an older and a newer file and exited with code 0; the newer
\* one was returned.
C18_Witness ==
    /\ call.pc = "edit_uploading" /\ call.yt = "found" /\ call.proc = "exit0"
    /\ \E f, g \in tmp.files :
          f.name = call.file_path /\ g.mtime < f.mtime

\* C19: no file written by direct_download ever holds more than the ceiling;
\* during the transfer the file holds exactly the bytes counted so far; the
\* total that makes direct_download give up is above the ceiling, not at it,
\* and its chunk is not written (the file is gone); and when direct_download
\* returns a path, the file of that path holds every byte received: a body of
\* exactly the ceiling is returned whole.
C19_WrittenWithinCeiling ==
    /\ [](\A f \in FetchFiles : f.size <= MAX_DIRECT_DOWNLOAD_BYTES)
    /\ [](call.pc = "stream" =>
             (/\ call.total <= MAX_DIRECT_DOWNLOAD_BYTES
              /\ SizeOf(tmp, call.out_path) = call.total))
    /\ [](call.over =>
             (call.over_total > MAX_DIRECT_DOWNLOAD_BYTES /\ FetchFiles = {}))
    /\ [][(call'.dd = "found" /\ call.dd # "found") =>
              (/\ call.pc = "stream" /\ call'.pc = "edit_uploading"
               /\ SizeOf(tmp', call'.file_path) = call.total
               /\ call.total <= MAX_DIRECT_DOWNLOAD_BYTES)]_vars

\* A body of exactly the ceiling was received and its file is handed on.
C19_Witness ==
    /\ call.pc = "edit_uploading" /\ call.dd = "found"
    /\ SizeOf(tmp, call.file_path) = MAX_DIRECT_DOWNLOAD_BYTES
    /\ \E f \in FetchFiles : f.name = call.file_path

\* C20: a step changes the slot of at most one session, and only a step of
\* that session: the running call of the session recording its URL (after
\* its status message was sent, for a message or a retry), or a close in that
\* session while no call runs.  The slots of all other sessions stay as they
\* are, in whatever order the calls of the sessions follow one another.
C20_SlotsChangePerSession ==
    [][\A s \in Sessions :
          user_data'[s] # user_data[s] =>
             /\ \A t \in Sessions \ {s} : user_data'[t] = user_data[t]
             /\ \/ /\ call.sess = s
                   /\ call.pc \in {"reply", "cb_reply"}
                   /\ user_data'[s] = call.url
                \/ /\ call.pc = "idle"
                   /\ user_data'[s] = None]_vars

\* Session s2 recorded a URL, failed and was closed, while the slot of s1
\* still holds the URL s1 recorded.
C20_Witness ==
    /\ user_data["s1"] # None /\ user_data["s2"] = None /\ cleared["s2"]
    /\ call.pc = "idle"

====
